---- MODULE Spec2Model ----
(***************************************************************************)
(* A model of the planning / execution / control loop of the market        *)
(* intelligence agent: TaskGraph (app/planning/task_graph.py),             *)
(* ExecutorAgent.run_plan (app/agents/executor_agent.py) and               *)
(* AutonomousLoop.run (app/agents/autonomous_loop.py) with                 *)
(* SelfReflection (app/agents/self_reflection.py), and on their own        *)
(* CriticAgent.evaluate (app/agents/critic_agent.py) and                   *)
(* PlanningEngine.refine_plan (app/planning/planning_engine.py).           *)
(*                                                                         *)
(* A task list is a sequence of dependency lists: the task at position i   *)
(* has task_id i (GoalDecomposer.decompose gives every task its own id),   *)
(* and id 0 is an id that no task of the list has.                         *)
(***************************************************************************)
EXTENDS Integers, Sequences, FiniteSets, TLC

VARIABLES
    \* TaskGraph
    tasks,        \* TaskGraph.tasks: the task list, tasks[i] = dependencies of task i
    gstate,       \* "new" | "constructed" | "rejected" (ValueError) | "ordered"
    levels,       \* the value returned by get_execution_order(), <<>> before the call
    \* ExecutorAgent.run_plan
    xpc,          \* "idle" | "running" | "done" (returned) | "raised"
    epos,         \* <<level, index>>: the node the two nested loops are at
    status,       \* TaskNode.status of every node
    result,       \* TaskNode.result: None or the result of the node's worker
    error,        \* TaskNode.error: "none" or the kind of message
    invoked,      \* the nodes whose worker's execute() has been called
    execution_log, \* the execution_log list of run_plan
    \* AutonomousLoop
    pc,                 \* the statement run() is at
    max_iterations,     \* self.max_iterations
    timeout_seconds,    \* self.timeout_seconds, None or seconds
    max_cost,           \* self.max_cost, None or a limit
    max_tokens,         \* self.max_tokens, None or a limit
    total_cost,         \* self.total_cost
    total_tokens,       \* self.total_tokens
    elapsed,            \* time.time() - start_time
    iteration,          \* the loop variable of run()
    iterations,         \* the critiques of the IterationResults appended so far
    current_plan,       \* None or the version of the current Plan
    final_result,       \* "None", "value" or "execution_result"
    critique,           \* None or the Critique of this iteration
    termination_reason, \* termination_reason, "" until one is set
    run_status,         \* status of the returned AutonomousExecutionResult
    reflection,         \* None or the dictionary reflect() returned last
    experiences,        \* what store_experience has put into long-term memory
    \* CriticAgent.evaluate
    cpc,          \* "idle" | "called" | "returned" | "raised"
    response,     \* the text query_llm returned, as what json.loads makes of it
    critic_out,   \* None or the Critique evaluate returned
    \* PlanningEngine.refine_plan
    ppc,            \* "idle" | "called" | "returned" | "raised"
    original_plan,  \* the Plan object passed as original_plan
    refine_input,   \* the critique and context arguments, the decomposer's answer
    refined_plan,   \* None or the Plan refine_plan returned
    \* ShortTermMemory
    stm_max_size, \* self.max_size, the maxlen of the deque
    memories,     \* self.memories, oldest entry first
    stm_pushed,   \* history: the entries pushed since the last clear
    stm_count,    \* history: the number of pushes so far
    recent,       \* <<>> or <<n, memory_type, entries>> of the last get_recent
    \* retry_with_backoff
    rpc,                \* "idle" | "running" | "returned" | "raised"
    retries,            \* the retries argument of the decorator
    backoff_in_seconds, \* the backoff_in_seconds argument
    attempts,           \* the local counter of the wrapper
    calls,              \* history: what each call of func did, "raise" or its value
    sleeps,             \* history: the arguments of time.sleep
    retval,             \* "" or the value the wrapper returned
    \* VectorIngestionPipeline.index
    ipc,          \* "idle" | "called" | "stored" | "raised"
    batch,        \* the batch of documents, each given by its text
    cache,        \* EmbeddingCache.cache: from document ids to embeddings
    stored,       \* <<>> or the arguments of db.add_documents
    \* LongTermMemory.retrieve_relevant_memory, as called by AutonomousLoop.run
    mpc,               \* "idle" | "called" | "returned" | "raised"
    ranked,            \* the stored experiences' success flags, nearest first
    past_experiences,  \* the experiences listed in initial_context
    \* PlannerAgent.execute: PlanningEngine.create_plan, then validate_plan
    dpc,          \* "idle" | "create" | "validate" | "completed" | "failed"
    tasks_data,   \* the task list parsed from the model's response
    plan_goal,    \* plan.goal
    plan_tasks,   \* plan.tasks: the dependency list of every task
    validation    \* None or what validate_plan returned

gvars == <<tasks, gstate, levels>>
evars == <<xpc, epos, status, result, error, invoked, execution_log>>
cfgvars == <<max_iterations, timeout_seconds, max_cost, max_tokens, total_cost,
             total_tokens>>
lvars == <<pc, cfgvars, elapsed, iteration, iterations, current_plan, final_result,
           critique, termination_reason, run_status, reflection, experiences>>
cvars == <<cpc, response, critic_out>>
pvars == <<ppc, original_plan, refine_input, refined_plan>>
svars == <<stm_max_size, memories, stm_pushed, stm_count, recent>>
\* The parts modelled on their own, and all the parts above them.
rvars == <<rpc, retries, backoff_in_seconds, attempts, calls, sleeps, retval>>
ivars == <<ipc, batch, cache, stored>>
mvars == <<mpc, ranked, past_experiences>>
dvars == <<dpc, tasks_data, plan_goal, plan_tasks, validation>>
nvars == <<svars, rvars, ivars, mvars, dvars>>
corevars == <<gvars, evars, lvars, cvars, pvars>>
vars == <<corevars, nvars>>
\* All the parts but one.
but_svars == <<corevars, rvars, ivars, mvars, dvars>>
but_rvars == <<corevars, svars, ivars, mvars, dvars>>
but_ivars == <<corevars, svars, rvars, mvars, dvars>>
but_mvars == <<corevars, svars, rvars, ivars, dvars>>
but_dvars == <<corevars, svars, rvars, ivars, mvars>>

\* ------------------------------------------------------------------ bounds

MaxTasks == 4
MaxEdges == 4
\* The plans handed to run_plan.
ExecMaxTasks == 3
ExecMaxEdges == 2
\* The largest max_iterations an AutonomousLoop is built with, and the longest a
\* run lasts on the model's clock.
MaxIterations == 3
MaxTime == 2
\* PlanningEngine: the highest version of a plan handed to refine_plan
MaxVersion == 3
\* ShortTermMemory: the largest capacity, the number of pushes, the largest n
MaxSize == 3
MaxPushes == 5
MaxRecent == 4
\* retry_with_backoff: the largest retries and backoff_in_seconds
MaxRetries == 4
MaxBackoff == 3
\* VectorIngestionPipeline: the number of distinct texts, the largest batch
MaxTexts == 3
MaxBatch == 3
\* LongTermMemory: the number of stored experiences
MaxStored == 5
\* GoalDecomposer: the tasks of a response, the references of a response, the
\* distinct descriptions
MaxTasksData == 3
MaxRefs == 2
MaxDescriptions == 2
\* validate_plan: the tasks of a plan, the dependency entries of a plan
PlanMaxTasks == 3
PlanMaxEdges == 3

\* An id that is the task_id of no task.
NoSuchTask == 0

\* ------------------------------------------------------------- task lists

\* The dependency entries of a list of n tasks, as (task, dependency id) pairs: an
\* entry names a task of the list or NoSuchTask.
Entries(n) == (1..n) \X ({NoSuchTask} \cup (1..n))

RECURSIVE AddEntries(_, _, _)
AddEntries(ts, es, i) ==
    IF i > Len(es) THEN ts
    ELSE AddEntries([ts EXCEPT ![es[i][1]] = Append(@, es[i][2])], es, i + 1)

\* The list of n tasks whose dependency lists hold the entries es, in that order.
TaskListOf(n, es) == AddEntries([t \in 1..n |-> <<>>], es, 1)

TaskIds(ts) == 1..Len(ts)

\* ---------------------------------------------------- TaskGraph._validate_dag

RECURSIVE AppendEdges(_, _, _)
\* for dep_id in task.dependencies: if dep_id in self.task_map:
\*     graph[dep_id].append(task.task_id)
AppendEdges(g, t, ds) ==
    IF ds = <<>> THEN g
    ELSE LET d == Head(ds)
         IN  AppendEdges(IF d \in DOMAIN g THEN [g EXCEPT ![d] = Append(@, t)] ELSE g,
                         t, Tail(ds))

RECURSIVE BuildGraphFrom(_, _, _)
BuildGraphFrom(ts, t, g) ==
    IF t > Len(ts) THEN g
    ELSE BuildGraphFrom(ts, t + 1, AppendEdges(g, t, ts[t]))

\* graph: dependency id -> the list of its dependents, in declaration order.
BuildGraph(ts) == BuildGraphFrom(ts, 1, [d \in TaskIds(ts) |-> <<>>])

RECURSIVE has_cycle(_, _, _, _)
RECURSIVE VisitNeighbors(_, _, _, _, _)
\* The loop over graph[node_id] in has_cycle; the result carries the two sets the
\* closure has_cycle mutates.
VisitNeighbors(g, node, nbrs, visited, rec_stack) ==
    IF nbrs = <<>>
    THEN [cycle |-> FALSE, visited |-> visited, rec_stack |-> rec_stack \ {node}]
    ELSE LET neighbor == Head(nbrs)
         IN  IF neighbor \notin visited
             THEN LET r == has_cycle(g, neighbor, visited, rec_stack)
                  IN  IF r.cycle THEN r
                      ELSE VisitNeighbors(g, node, Tail(nbrs), r.visited, r.rec_stack)
             ELSE IF neighbor \in rec_stack
             THEN [cycle |-> TRUE, visited |-> visited, rec_stack |-> rec_stack]
             ELSE VisitNeighbors(g, node, Tail(nbrs), visited, rec_stack)

\* has_cycle without rec_stack.add(node_id): no back-edge is ever seen.
has_cycle_NoRecStack(g, node, visited, rec_stack) ==
    VisitNeighbors(g, node, g[node], visited \cup {node}, rec_stack)

has_cycle(g, node, visited, rec_stack) ==
    VisitNeighbors(g, node, g[node], visited \cup {node}, rec_stack \cup {node})

RECURSIVE ValidateFrom(_, _, _, _, _)
\* for task_id in self.task_map.keys(): if task_id not in visited: if has_cycle: raise
ValidateFrom(ts, g, t, visited, rec_stack) ==
    IF t > Len(ts) THEN FALSE
    ELSE IF t \in visited THEN ValidateFrom(ts, g, t + 1, visited, rec_stack)
    ELSE LET r == has_cycle(g, t, visited, rec_stack)
         IN  IF r.cycle THEN TRUE
             ELSE ValidateFrom(ts, g, t + 1, r.visited, r.rec_stack)

\* _validate_dag that also raises for a dependency id missing from task_map.
ValidateDagRaises_Strict(ts) ==
    \/ \E t \in TaskIds(ts) : \E i \in 1..Len(ts[t]) : ts[t][i] \notin TaskIds(ts)
    \/ ValidateFrom(ts, BuildGraph(ts), 1, {}, {})

\* TRUE when _validate_dag raises ValueError("Cycle detected ...").
ValidateDagRaises(ts) == ValidateFrom(ts, BuildGraph(ts), 1, {}, {})

\* ------------------------------------------- TaskGraph.get_execution_order

\* in_degree counted without the "if dep_id in self.task_map" test.
CountDefined_All(ds, ids) == Len(ds)

RECURSIVE CountDefined(_, _)
CountDefined(ds, ids) ==
    IF ds = <<>> THEN 0
    ELSE (IF Head(ds) \in ids THEN 1 ELSE 0) + CountDefined(Tail(ds), ids)

\* in_degree[task_id] += 1 for every dependency entry that is in task_map.
InDegree(ts) == [t \in TaskIds(ts) |-> CountDefined(ts[t], TaskIds(ts))]

RECURSIVE ZeroDegreeFrom_Reversed(_, _, _)
\* The initial queue filled in reverse declaration order.
ZeroDegreeFrom_Reversed(indeg, t, n) ==
    IF t > n THEN <<>>
    ELSE ZeroDegreeFrom_Reversed(indeg, t + 1, n) \o (IF indeg[t] = 0 THEN <<t>> ELSE <<>>)

RECURSIVE ZeroDegreeFrom(_, _, _)
\* deque([task_id for task_id, degree in in_degree.items() if degree == 0])
ZeroDegreeFrom(indeg, t, n) ==
    IF t > n THEN <<>>
    ELSE (IF indeg[t] = 0 THEN <<t>> ELSE <<>>) \o ZeroDegreeFrom(indeg, t + 1, n)

InitialQueue(ts) == ZeroDegreeFrom(InDegree(ts), 1, Len(ts))

RECURSIVE ProcessDependents(_, _, _)
\* for dependent_id in graph[task_id]: in_degree -= 1; if == 0: queue.append
ProcessDependents(dependents, indeg, queue) ==
    IF dependents = <<>> THEN [in_degree |-> indeg, queue |-> queue]
    ELSE LET d  == Head(dependents)
             nd == [indeg EXCEPT ![d] = @ - 1]
         IN  ProcessDependents(Tail(dependents), nd,
                               IF nd[d] = 0 THEN Append(queue, d) ELSE queue)

RECURSIVE ProcessLevel_Drain(_, _, _, _, _)
\* The inner loop running until the queue is empty instead of level_size times.
ProcessLevel_Drain(g, indeg, queue, k, level) ==
    IF queue = <<>> THEN [in_degree |-> indeg, queue |-> queue, level |-> level]
    ELSE LET task_id == Head(queue)
             r == ProcessDependents(g[task_id], indeg, Tail(queue))
         IN  ProcessLevel_Drain(g, r.in_degree, r.queue, k, Append(level, task_id))

RECURSIVE ProcessLevel(_, _, _, _, _)
\* for _ in range(level_size): task_id = queue.popleft(); level.append(...)
ProcessLevel(g, indeg, queue, k, level) ==
    IF k = 0 THEN [in_degree |-> indeg, queue |-> queue, level |-> level]
    ELSE LET task_id == Head(queue)
             r == ProcessDependents(g[task_id], indeg, Tail(queue))
         IN  ProcessLevel(g, r.in_degree, r.queue, k - 1, Append(level, task_id))

RECURSIVE KahnLevels(_, _, _, _)
\* while queue: ... if level: levels.append(level)
KahnLevels(g, indeg, queue, lv) ==
    IF queue = <<>> THEN lv
    ELSE LET r == ProcessLevel(g, indeg, queue, Len(queue), <<>>)
         IN  KahnLevels(g, r.in_degree, r.queue,
                        IF r.level # <<>> THEN Append(lv, r.level) ELSE lv)

GetExecutionOrder(ts) == KahnLevels(BuildGraph(ts), InDegree(ts), InitialQueue(ts), <<>>)

\* ----------------------------------------------------- the TaskGraph object

\* tasks is a list of at most maxn tasks with at most maxe dependency entries in
\* all; an entry may repeat within a task's list.
SomeTaskList(maxn, maxe) ==
    \E n \in 0..maxn, k \in 0..maxe :
       \E es \in [1..k -> Entries(n)] :
          /\ \A i \in 1..(k - 1) : es[i][1] <= es[i + 1][1]
          /\ tasks = TaskListOf(n, es)

\* No run_plan call is in progress.
ExecIdle ==
    /\ xpc = "idle"
    /\ epos = <<1, 1>>
    /\ status = <<>>
    /\ result = <<>>
    /\ error = <<>>
    /\ invoked = {}
    /\ execution_log = <<>>

\* Python's None, for the optional limits, the plan and the critique.
None == -1

\* No AutonomousLoop.run call is in progress.
LoopIdle ==
    /\ pc = "idle"
    /\ max_iterations = 0
    /\ timeout_seconds = None
    /\ max_cost = None
    /\ max_tokens = None
    /\ total_cost = 0
    /\ total_tokens = 0
    /\ elapsed = 0
    /\ iteration = 1
    /\ iterations = <<>>
    /\ current_plan = None
    /\ final_result = "None"
    /\ critique = None
    /\ termination_reason = ""
    /\ run_status = "pending"
    /\ reflection = None
    /\ experiences = <<>>

\* No CriticAgent.evaluate call is in progress.
CriticIdle ==
    /\ cpc = "idle"
    /\ response = None
    /\ critic_out = None

\* No PlanningEngine.refine_plan call is in progress.
PlanIdle ==
    /\ ppc = "idle"
    /\ original_plan = None
    /\ refine_input = None
    /\ refined_plan = None

\* No ShortTermMemory is in use.
ShortTermIdle ==
    /\ stm_max_size = 0
    /\ memories = <<>>
    /\ stm_pushed = <<>>
    /\ stm_count = 0
    /\ recent = <<>>

\* No wrapped call is in progress.
RetryIdle ==
    /\ rpc = "idle"
    /\ retries = 0
    /\ backoff_in_seconds = 1
    /\ attempts = 0
    /\ calls = <<>>
    /\ sleeps = <<>>
    /\ retval = ""

\* No batch is being indexed.
IngestIdle ==
    /\ ipc = "idle"
    /\ batch = <<>>
    /\ cache = <<>>
    /\ stored = <<>>

\* No memory retrieval is under way.
MemoryIdle ==
    /\ mpc = "idle"
    /\ ranked = <<>>
    /\ past_experiences = <<>>

\* No plan is being created or validated.
PlannerIdle ==
    /\ dpc = "idle"
    /\ tasks_data = <<>>
    /\ plan_goal = ""
    /\ plan_tasks = <<>>
    /\ validation = None

\* None of the parts modelled on their own is in use.
PartsIdle == ShortTermIdle /\ RetryIdle /\ IngestIdle /\ MemoryIdle /\ PlannerIdle

GraphInit ==
    /\ SomeTaskList(MaxTasks, MaxEdges)
    /\ gstate = "new"
    /\ levels = <<>>
    /\ ExecIdle
    /\ LoopIdle
    /\ CriticIdle
    /\ PlanIdle
    /\ PartsIdle

\* TaskGraph(tasks): __init__ stores the list and runs _validate_dag.
Construct ==
    /\ gstate = "new"
    /\ gstate' = IF ValidateDagRaises(tasks) THEN "rejected" ELSE "constructed"
    /\ UNCHANGED <<tasks, levels, evars, lvars, cvars, pvars, nvars>>

\* graph.get_execution_order() on a constructed graph.
CallGetExecutionOrder ==
    /\ gstate = "constructed"
    /\ levels' = GetExecutionOrder(tasks)
    /\ gstate' = "ordered"
    /\ UNCHANGED <<tasks, evars, lvars, cvars, pvars, nvars>>

GraphNext == Construct \/ CallGetExecutionOrder

SpecGraph == GraphInit /\ [][GraphNext]_vars

\* ------------------------------------------------- ExecutorAgent.run_plan

\* What agent.execute(agent_task) hands back: the worker agents set COMPLETED with
\* their result (BaseAgent._update_task_status keeps result None when the result
\* is empty) or FAILED with an error message.
WorkerReturns == {"completed", "completed_empty", "failed"}

\* The result a worker computes for node t; None stands for "no result".
ResultOf(t) == t

\* update_task_status that stores the result and the error but not the status.
UpdateTaskStatus_KeepsStatus(t, st, res, err) ==
    /\ status' = status
    /\ result' = IF res # None THEN [result EXCEPT ![t] = res] ELSE result
    /\ error'  = IF err # "none" THEN [error EXCEPT ![t] = err] ELSE error

\* TaskGraph.update_task_status(task_id, status, result, error)
UpdateTaskStatus(t, st, res, err) ==
    /\ status' = [status EXCEPT ![t] = st]
    /\ result' = IF res # None THEN [result EXCEPT ![t] = res] ELSE result
    /\ error'  = IF err # "none" THEN [error EXCEPT ![t] = err] ELSE error

\* TaskGraph.is_complete()
IsComplete == \A t \in DOMAIN status : status[t] \in {"completed", "failed"}

RECURSIVE TasksWithStatus(_, _)
\* [task for task in self.tasks if task.status == st], from task t on.
TasksWithStatus(t, st) ==
    IF t > Len(status) THEN <<>>
    ELSE (IF status[t] = st THEN <<t>> ELSE <<>>) \o TasksWithStatus(t + 1, st)

\* The completed tasks in the order in which the run logged them.
CompletedTasks_LogOrder ==
    LET logged == SelectSeq(execution_log, LAMBDA e : status[e.task_id] = "completed")
    IN  [i \in 1..Len(logged) |-> logged[i].task_id]

\* TaskGraph.get_completed_tasks() and get_failed_tasks(), in declaration order.
CompletedTasks == TasksWithStatus(1, "completed")
FailedTasks == TasksWithStatus(1, "failed")

\* "final_results" of the dictionary run_plan returns: task id and result of each
\* completed task, in the dictionary's insertion order.
FinalResults ==
    [i \in 1..Len(CompletedTasks) |-> <<CompletedTasks[i], result[CompletedTasks[i]]>>]

\* What AutonomousLoop.run takes from that dictionary as the iteration's result:
\* the last value of final_results, or the whole dictionary when it is empty.
WholeExecutionResult == 0
FinalResult ==
    IF FinalResults # <<>> THEN FinalResults[Len(FinalResults)][2]
    ELSE WholeExecutionResult

\* status=TaskStatus.COMPLETED if final_result else TaskStatus.FAILED: None is
\* false; a worker's result and the dictionary run_plan returns are true.
StatusFor(final) == IF final # None THEN "completed" ELSE "failed"

\* The node the loops of run_plan are at, and the position after it.
CurrentNode == levels[epos[1]][epos[2]]
\* The position after a node when the rest of its level is given up.
NextPos_AbortLevel == <<epos[1] + 1, 1>>
NextPos == IF epos[2] < Len(levels[epos[1]]) THEN <<epos[1], epos[2] + 1>>
           ELSE <<epos[1] + 1, 1>>
LogEntry(t, st) == [task_id |-> t, status |-> st, level |-> epos[1] - 1]

\* A plan of PENDING nodes is handed to run_plan.
ExecInit ==
    /\ SomeTaskList(ExecMaxTasks, ExecMaxEdges)
    /\ gstate = "new"
    /\ levels = <<>>
    /\ xpc = "idle"
    /\ epos = <<1, 1>>
    /\ status = [t \in TaskIds(tasks) |-> "pending"]
    /\ result = [t \in TaskIds(tasks) |-> None]
    /\ error = [t \in TaskIds(tasks) |-> "none"]
    /\ invoked = {}
    /\ execution_log = <<>>
    /\ LoopIdle
    /\ CriticIdle
    /\ PlanIdle
    /\ PartsIdle

\* graph = TaskGraph(plan.tasks); execution_order = graph.get_execution_order()
\* A ValueError of the constructor leaves run_plan.
RunPlanStart ==
    /\ xpc = "idle"
    /\ IF ValidateDagRaises(tasks)
       THEN /\ gstate' = "rejected"
            /\ xpc' = "raised"
            /\ UNCHANGED levels
       ELSE /\ gstate' = "ordered"
            /\ levels' = GetExecutionOrder(tasks)
            /\ xpc' = "running"
    /\ UNCHANGED <<tasks, epos, status, result, error, invoked, execution_log, lvars, cvars, pvars, nvars>>

\* The node's role has no entry in agent_map: ValueError, handled by the except
\* branch of the loop body. (The role is a field of the node that nothing reads
\* before this point.)
NodeNoAgent ==
    /\ xpc = "running"
    /\ epos[1] <= Len(levels)
    /\ UpdateTaskStatus(CurrentNode, "failed", None, "no_agent")
    /\ execution_log' = Append(execution_log, LogEntry(CurrentNode, "failed"))
    /\ epos' = NextPos
    /\ UNCHANGED <<gvars, xpc, invoked, lvars, cvars, pvars, nvars>>

\* agent.execute(agent_task) returns; its status, result and error are copied
\* into the node.
NodeWorkerReturns ==
    /\ xpc = "running"
    /\ epos[1] <= Len(levels)
    /\ \E w \in WorkerReturns :
          LET st == IF w = "failed" THEN "failed" ELSE "completed" IN
          /\ UpdateTaskStatus(CurrentNode, st,
                              IF w = "completed" THEN ResultOf(CurrentNode) ELSE None,
                              IF w = "failed" THEN "worker_error" ELSE "none")
          /\ execution_log' = Append(execution_log, LogEntry(CurrentNode, st))
    /\ invoked' = invoked \cup {CurrentNode}
    /\ epos' = NextPos
    /\ UNCHANGED <<gvars, xpc, lvars, cvars, pvars, nvars>>

\* agent.execute(agent_task) raises: the except branch marks the node FAILED.
NodeWorkerRaises ==
    /\ xpc = "running"
    /\ epos[1] <= Len(levels)
    /\ UpdateTaskStatus(CurrentNode, "failed", None, "exception")
    /\ execution_log' = Append(execution_log, LogEntry(CurrentNode, "failed"))
    /\ invoked' = invoked \cup {CurrentNode}
    /\ epos' = NextPos
    /\ UNCHANGED <<gvars, xpc, lvars, cvars, pvars, nvars>>

\* run_plan returning while nodes are still to be processed.
RunPlanReturn_Early ==
    /\ xpc = "running"
    /\ xpc' = "done"
    /\ UNCHANGED <<gvars, epos, status, result, error, invoked, execution_log, lvars, cvars, pvars, nvars>>

\* Both loops are over: the result dictionary is built from the graph and returned.
RunPlanReturn ==
    /\ xpc = "running"
    /\ epos[1] > Len(levels)
    /\ xpc' = "done"
    /\ UNCHANGED <<gvars, epos, status, result, error, invoked, execution_log, lvars, cvars, pvars, nvars>>

ExecNext ==
    \/ RunPlanStart
    \/ NodeWorkerReturns
    \/ NodeNoAgent
    \/ NodeWorkerRaises
    \/ RunPlanReturn

SpecExec == ExecInit /\ [][ExecNext]_vars

\* run_plan is one sequential call: as long as it has a step to take it takes
\* one (every worker call returns or raises).
SpecExecFair == SpecExec /\ WF_vars(ExecNext)

\* ------------------------------------------------------ AutonomousLoop.run

\* score_threshold and the overall scores of a Critique, in hundredths.
ScoreThreshold == 75
Scores == {50, 60, 70, 75, 90}

\* The truth value Python gives an Optional number: None and 0 are false.
Truthy(x) == x # None /\ x # 0

\* A collaborator call may take time; the clock stops at MaxTime.
Later == {elapsed, IF elapsed < MaxTime THEN elapsed + 1 ELSE elapsed}

\* should_continue_iterating without its first test, the iteration budget.
ShouldContinueIterating_NoBudget(c, iteration_number, maxit, threshold) ==
    IF c.overall_score >= threshold /\ ~c.should_iterate THEN FALSE
    ELSE IF c.should_iterate THEN TRUE
    ELSE IF c.overall_score < threshold THEN TRUE
    ELSE FALSE

\* SelfReflection.should_continue_iterating
ShouldContinueIterating(c, iteration_number, maxit, threshold) ==
    IF iteration_number >= maxit THEN FALSE
    ELSE IF c.overall_score >= threshold /\ ~c.should_iterate THEN FALSE
    ELSE IF c.should_iterate THEN TRUE
    ELSE IF c.overall_score < threshold THEN TRUE
    ELSE FALSE

\* str(True) and str(False), as store_experience writes the flag into the metadata.
PyStr(b) == IF b THEN "True" ELSE "False"

\* The success flag computed with the loop's score threshold.
ReflectSuccess_Threshold(c) == c.overall_score >= ScoreThreshold /\ ~c.should_iterate

\* SelfReflection.reflect: success = overall_score >= 0.7 and not should_iterate.
SuccessScore == 70
ReflectSuccess(c) == c.overall_score >= SuccessScore /\ ~c.should_iterate

\* store_experience writing over the store instead of adding to it.
StoreExperience_Overwrite(source, c, success) ==
    experiences' = <<[source |-> source, success |-> PyStr(success),
                      critique_score |-> IF source = "reflect" THEN c.overall_score ELSE None]>>

\* LongTermMemory.store_experience: one more record in the store, with the flag
\* as a string and the critique's overall score when a critique is given.
StoreExperience(source, c, success) ==
    experiences' = Append(experiences,
        [source |-> source, success |-> PyStr(success),
         critique_score |-> IF source = "reflect" THEN c.overall_score ELSE None])

\* The except branch of run(): a Failed result whose reason is "error: <message>".
Handler ==
    /\ run_status' = "failed"
    /\ termination_reason' = "error"
    /\ pc' = "returned"

\* An AutonomousLoop as __init__ leaves it, about to run.
LoopInit ==
    /\ pc = "start"
    /\ max_iterations \in 0..MaxIterations
    /\ timeout_seconds \in {None, 0, 1}
    /\ max_cost \in {None, 0, 1}
    /\ max_tokens \in {None, 0, 1}
    /\ total_cost = 0
    /\ total_tokens = 0
    /\ elapsed = 0
    /\ iteration = 1
    /\ iterations = <<>>
    /\ current_plan = None
    /\ final_result = "None"
    /\ critique = None
    /\ termination_reason = ""
    /\ run_status = "pending"
    /\ reflection = None
    /\ experiences = <<>>
    /\ tasks = <<>>
    /\ gstate = "new"
    /\ levels = <<>>
    /\ ExecIdle
    /\ CriticIdle
    /\ PlanIdle
    /\ PartsIdle

\* Lines 82-103, before the try: the goal is pushed to short-term memory and the
\* relevant past experiences are retrieved from long-term memory.
RunInit ==
    /\ pc = "start"
    /\ pc' = "loop_head"
    /\ elapsed' \in Later
    /\ UNCHANGED <<cfgvars, iteration, iterations, current_plan, final_result, critique,
                   termination_reason, run_status,
                   reflection, experiences, gvars, evars, cvars, pvars, nvars>>

\* retrieve_relevant_memory raises (EmbeddingService.embed_batch gives up with a
\* RuntimeError, or the vector store fails): no handler is in scope.
RunInitRaises ==
    /\ pc = "start"
    /\ pc' = "raised"
    /\ elapsed' \in Later
    /\ UNCHANGED <<cfgvars, iteration, iterations, current_plan, final_result, critique,
                   termination_reason, run_status,
                   reflection, experiences, gvars, evars, cvars, pvars, nvars>>

\* for iteration in range(1, self.max_iterations + 1), then the timeout check.
LoopHead ==
    /\ pc = "loop_head"
    /\ IF iteration > max_iterations
       THEN /\ pc' = "finalize"
            /\ UNCHANGED termination_reason
       ELSE IF Truthy(timeout_seconds) /\ elapsed > timeout_seconds
       THEN /\ termination_reason' = "timeout"
            /\ pc' = "finalize"
       ELSE /\ pc' = "plan"
            /\ UNCHANGED termination_reason
    /\ UNCHANGED <<cfgvars, elapsed, iteration, iterations, current_plan, final_result,
                   critique, run_status,
                   reflection, experiences, gvars, evars, cvars, pvars, nvars>>

\* Step 1 with a plan: create_plan returns the Plan (version 1), or refine_plan
\* returns the refined Plan (version + 1). "if not current_plan" is then false.
PlanOk ==
    /\ pc = "plan"
    /\ current_plan' = IF iteration = 1 THEN 1 ELSE current_plan + 1
    /\ pc' = "execute"
    /\ UNCHANGED <<cfgvars, elapsed, iteration, iterations, final_result, critique,
                   termination_reason, run_status,
                   reflection, experiences, gvars, evars, cvars, pvars, nvars>>

\* Step 1 without a plan. Iteration 1: create_plan returns None (PlannerAgent.execute
\* caught the failure) and len(current_plan.tasks) raises AttributeError. Later
\* iterations: refine_plan raises (the decomposition fails, or "Refined plan is
\* invalid"). Either way the except branch of run() is taken.
PlanFails ==
    /\ pc = "plan"
    /\ current_plan' = IF iteration = 1 THEN None ELSE current_plan
    /\ Handler
    /\ UNCHANGED <<cfgvars, elapsed, iteration, iterations, final_result, critique,
                   reflection, experiences, gvars, evars, cvars, pvars, nvars>>

\* Step 2: run_plan, then the final result is the last value of final_results
\* (None when that node completed without a result), or the whole execution
\* result when no node completed.
Execute ==
    /\ pc = "execute"
    /\ final_result' \in {"value", "None", "execution_result"}
    /\ elapsed' \in Later
    /\ pc' = "critique"
    /\ UNCHANGED <<cfgvars, iteration, iterations, current_plan, critique,
                   termination_reason, run_status,
                   reflection, experiences, gvars, evars, cvars, pvars, nvars>>

\* Step 3: critic.evaluate returns a Critique.
Critique ==
    /\ pc = "critique"
    /\ critique' \in [overall_score : Scores, should_iterate : BOOLEAN]
    /\ pc' = "reflect"
    /\ UNCHANGED <<cfgvars, elapsed, iteration, iterations, current_plan, final_result,
                   termination_reason, run_status,
                   reflection, experiences, gvars, evars, cvars, pvars, nvars>>

\* Step 4: reflection.reflect (the experience is stored and the reflection
\* returned), then the IterationResult is appended.
Reflect ==
    /\ pc = "reflect"
    /\ StoreExperience("reflect", critique, ReflectSuccess(critique))
    /\ reflection' = [success |-> ReflectSuccess(critique)]
    /\ iterations' = Append(iterations, critique)
    /\ pc' = "log_iteration"
    /\ UNCHANGED <<cfgvars, elapsed, iteration, current_plan, final_result, critique,
                   termination_reason, run_status, gvars, evars, cvars, pvars, nvars>>

\* experience_log.log_iteration(iteration_result)
LogIteration ==
    /\ pc = "log_iteration"
    /\ pc' = "decide"
    /\ UNCHANGED <<cfgvars, elapsed, iteration, iterations, current_plan, final_result,
                   critique, termination_reason, run_status,
                   reflection, experiences, gvars, evars, cvars, pvars, nvars>>

\* Lines 208-236: the continue decision, then the two safety guards.
Decide ==
    /\ pc = "decide"
    /\ IF ~ShouldContinueIterating(critique, iteration, max_iterations, ScoreThreshold)
       THEN /\ termination_reason' = IF critique.overall_score >= ScoreThreshold
                                      THEN "threshold_met" ELSE "max_iterations"
            /\ pc' = "finalize"
            /\ UNCHANGED iteration
       ELSE IF Truthy(max_cost) /\ total_cost >= max_cost
       THEN /\ termination_reason' = "max_cost"
            /\ pc' = "finalize"
            /\ UNCHANGED iteration
       ELSE IF Truthy(max_tokens) /\ total_tokens >= max_tokens
       THEN /\ termination_reason' = "max_tokens"
            /\ pc' = "finalize"
            /\ UNCHANGED iteration
       ELSE /\ iteration' = iteration + 1
            /\ pc' = "loop_head"
            /\ UNCHANGED termination_reason
    /\ UNCHANGED <<cfgvars, elapsed, iterations, current_plan, final_result, critique,
                   run_status,
                   reflection, experiences, gvars, evars, cvars, pvars, nvars>>

\* Lines 238-259: the default reason, the result object, log_execution.
Finalize ==
    /\ pc = "finalize"
    /\ termination_reason' = IF termination_reason = "" THEN "max_iterations"
                             ELSE termination_reason
    /\ run_status' = IF final_result # "None" THEN "completed" ELSE "failed"
    /\ pc' = "store_final"
    /\ UNCHANGED <<cfgvars, elapsed, iteration, iterations, current_plan, final_result,
                   critique,
                   reflection, experiences, gvars, evars, cvars, pvars, nvars>>

\* Lines 261-298: the final experience is stored and the result returned.
StoreFinal ==
    /\ pc = "store_final"
    /\ StoreExperience("run", None, run_status = "completed")
    /\ pc' = "returned"
    /\ UNCHANGED <<cfgvars, elapsed, iteration, iterations, current_plan, final_result,
                   critique, termination_reason, run_status,
                   reflection, gvars, evars, cvars, pvars, nvars>>

\* A collaborator called inside the try raises: critic.evaluate (the LLM query
\* gives up), reflection.reflect (store_experience), log_iteration, log_execution
\* or the final store_experience. reflect raises before the append; log_iteration
\* after it.
CollaboratorRaises ==
    /\ pc \in {"critique", "reflect", "log_iteration", "finalize", "store_final"}
    /\ Handler
    /\ UNCHANGED <<cfgvars, elapsed, iteration, iterations, current_plan, final_result,
                   critique,
                   reflection, experiences, gvars, evars, cvars, pvars, nvars>>

LoopNext ==
    \/ RunInit
    \/ RunInitRaises
    \/ LoopHead
    \/ PlanOk
    \/ PlanFails
    \/ Execute
    \/ Critique
    \/ Reflect
    \/ LogIteration
    \/ Decide
    \/ Finalize
    \/ StoreFinal
    \/ CollaboratorRaises

SpecLoop == LoopInit /\ [][LoopNext]_vars

\* --------------------------------------------------- CriticAgent.evaluate

\* No TaskGraph is under construction.
GraphIdle ==
    /\ tasks = <<>>
    /\ gstate = "new"
    /\ levels = <<>>

\* What a key of the parsed JSON object can hold where a number is expected: the
\* key is absent, its value is null (None), its value is a string that is not a
\* number, or it is a score in hundredths.
Absent == -2
NotNumeric == -3
DimScores == {60, 70, 80, 90}
FieldValues == {Absent, None, NotNumeric} \cup DimScores

DimKeys == {"completeness_score", "evidence_strength_score", "coherence_score",
            "actionability_score"}

\* The responses of the evaluator, by what json.loads makes of them: text that is
\* not JSON, a JSON array, a JSON scalar (null, a number, a string), or a JSON
\* object with some of the expected keys. should_iterate is 1 for true and 0 for
\* false; weaknesses tells whether the key is absent, an empty list or a list of
\* weaknesses.
NonObjects ==
    [kind : {"text", "array", "scalar"},
     completeness_score : {Absent}, evidence_strength_score : {Absent},
     coherence_score : {Absent}, actionability_score : {Absent},
     overall_score : {Absent}, should_iterate : {Absent}, weaknesses : {"absent"},
     confidence : {Absent}]
Objects ==
    [kind : {"object"},
     completeness_score : FieldValues, evidence_strength_score : FieldValues,
     coherence_score : FieldValues, actionability_score : FieldValues,
     overall_score : {Absent, None, NotNumeric, 74, 90},
     should_iterate : {Absent, 0, 1}, weaknesses : {"absent", "empty", "listed"},
     confidence : {Absent, 90}]
Responses == NonObjects \cup Objects

\* CriticAgent._parse_fallback
ParseFallback ==
    [kind |-> "object",
     completeness_score |-> 50, evidence_strength_score |-> 50,
     coherence_score |-> 50, actionability_score |-> 50,
     overall_score |-> 50, should_iterate |-> 1, weaknesses |-> "unable_to_parse",
     confidence |-> 30]

\* Lines 120-123: json.loads, with the fallback for a JSONDecodeError only.
Parsed(resp) == IF resp.kind = "text" THEN ParseFallback ELSE resp

\* parsed.get(key, default)
Get(v, default) == IF v = Absent THEN default ELSE v

\* An overall score that weighs the four dimensions equally.
WeightedOverall_Equal(c, e, h, a) == (25 * c + 25 * e + 25 * h + 25 * a) \div 100

\* Lines 128-133: 0.3, 0.3, 0.2 and 0.2 of the four dimension scores.
WeightedOverall(c, e, h, a) == (30 * c + 30 * e + 20 * h + 20 * a) \div 100

\* Lines 126-133: the overall score is computed when the object has none.
OverallScore(p) ==
    IF p.overall_score \in {Absent, None}
    THEN WeightedOverall(Get(p.completeness_score, 50), Get(p.evidence_strength_score, 50),
                         Get(p.coherence_score, 50), Get(p.actionability_score, 50))
    ELSE p.overall_score

\* evaluate raises: .get on a list or a scalar (AttributeError), arithmetic or
\* float() on None or on a string that is not a number (TypeError, ValueError).
EvaluateError(resp) ==
    \/ resp.kind \in {"array", "scalar"}
    \/ LET p == Parsed(resp) IN
          \/ \E k \in DimKeys : Get(p[k], 50) \in {None, NotNumeric}
          \/ p.overall_score = NotNumeric
          \/ Get(p.confidence, 70) \in {None, NotNumeric}

\* Lines 135-147: the Critique built from the parsed object.
CritiqueOf(resp) ==
    LET p == Parsed(resp) IN
    [completeness_score |-> Get(p.completeness_score, 50),
     evidence_strength_score |-> Get(p.evidence_strength_score, 50),
     coherence_score |-> Get(p.coherence_score, 50),
     actionability_score |-> Get(p.actionability_score, 50),
     overall_score |-> OverallScore(p),
     weaknesses |-> IF p.weaknesses = "absent" THEN "empty" ELSE p.weaknesses,
     should_iterate |-> Get(p.should_iterate, 1) = 1,
     confidence |-> Get(p.confidence, 70)]

\* query_llm has returned the response; evaluate is about to parse it.
CriticInit ==
    /\ cpc = "called"
    /\ response \in Responses
    /\ critic_out = None
    /\ GraphIdle
    /\ ExecIdle
    /\ LoopIdle
    /\ PlanIdle
    /\ PartsIdle

EvaluateReturns ==
    /\ cpc = "called"
    /\ ~EvaluateError(response)
    /\ critic_out' = CritiqueOf(response)
    /\ cpc' = "returned"
    /\ UNCHANGED <<response, gvars, evars, lvars, pvars, nvars>>

EvaluateRaises ==
    /\ cpc = "called"
    /\ EvaluateError(response)
    /\ cpc' = "raised"
    /\ UNCHANGED <<response, critic_out, gvars, evars, lvars, pvars, nvars>>

CriticNext == EvaluateReturns \/ EvaluateRaises

SpecCritic == CriticInit /\ [][CriticNext]_vars

\* ------------------------------------------- PlanningEngine.refine_plan

\* A plan id is a base id followed by the "_v<n>" suffixes appended to it; the
\* sequence holds the numbers n.
PlanIds == [base : {"plan_a", "plan_b"}, suffixes : {<<>>, <<2>>, <<2, 3>>}]

\* The task lists of a plan and of the decomposer's answer, as descriptions.
TaskDescriptions == {<<>>, <<"research">>, <<"research", "analyse">>}

\* The Plan objects that can be passed as original_plan.
Plans ==
    [plan_id : PlanIds, goal : {"goal_a", "goal_b"}, tasks : TaskDescriptions,
     version : 1..MaxVersion, metadata : {"empty", "context"}]

\* The critique argument: a Critique with its three lists, or an object without
\* these attributes; the context argument: None or a dictionary; and what
\* decomposer.decompose does: it raises or returns a task list.
RefineInputs ==
    [critique : {"critique", "no_attributes"}, context : {"None", "context"},
     decomposed : {<<"raises">>} \cup (TaskDescriptions \ {<<>>})]

\* f"{original_plan.plan_id}_v{original_plan.version + 1}"
RefinedPlanId(orig) ==
    [base |-> orig.plan_id.base,
     suffixes |-> Append(orig.plan_id.suffixes, orig.version + 1)]

\* A refined version that repeats the original's.
RefinedVersion_Same(orig) == orig.version

\* version=original_plan.version + 1
RefinedVersion(orig) == orig.version + 1

\* Lines 71-84: refinement_context
RefinementContext(orig, inp) ==
    [original_plan |-> [goal |-> orig.goal, tasks |-> orig.tasks],
     critique |-> IF inp.critique = "critique" THEN "lists" ELSE "empty_lists",
     context |-> inp.context]

\* refine_plan is called with a plan, a critique and a context.
PlanInit ==
    /\ ppc = "called"
    /\ original_plan \in Plans
    /\ refine_input \in RefineInputs
    /\ refined_plan = None
    /\ GraphIdle
    /\ ExecIdle
    /\ LoopIdle
    /\ CriticIdle
    /\ PartsIdle

\* create_plan(goal, refinement_context, plan_id, version) returns the new Plan.
\* Nothing is assigned to original_plan or to an object it holds.
RefinePlanReturns ==
    /\ ppc = "called"
    /\ refine_input.decomposed # <<"raises">>
    /\ refined_plan' = [plan_id |-> RefinedPlanId(original_plan),
                        goal |-> original_plan.goal,
                        tasks |-> refine_input.decomposed,
                        version |-> RefinedVersion(original_plan),
                        metadata |-> RefinementContext(original_plan, refine_input)]
    /\ ppc' = "returned"
    /\ UNCHANGED <<original_plan, refine_input, gvars, evars, lvars, cvars, nvars>>

\* decomposer.decompose raises inside create_plan: no Plan is returned.
RefinePlanRaises ==
    /\ ppc = "called"
    /\ refine_input.decomposed = <<"raises">>
    /\ ppc' = "raised"
    /\ UNCHANGED <<original_plan, refine_input, refined_plan, gvars, evars, lvars, cvars, nvars>>

PlanNext == RefinePlanReturns \/ RefinePlanRaises

SpecPlan == PlanInit /\ [][PlanNext]_vars

\* -------------------------------------------------------- ShortTermMemory

MemoryTypes == {"action", "reasoning"}

\* deque.append that keeps the oldest entries of a full deque.
DequeAppend_KeepOldest(q, e, maxlen) == IF Len(q) < maxlen THEN Append(q, e) ELSE q

\* deque(maxlen=N).append: a full deque drops its oldest entry.
DequeAppend(q, e, maxlen) ==
    LET a == Append(q, e) IN IF Len(a) > maxlen THEN Tail(a) ELSE a

\* [e for e in entries if e.memory_type == memory_type], when a type is given
FilterType(entries, memory_type) ==
    IF memory_type = "None" THEN entries
    ELSE SelectSeq(entries, LAMBDA e : e.memory_type = memory_type)

\* entries[-n:]; for n = 0 the slice starts at index 0 and is the whole list.
LastSlice(entries, n) ==
    IF n = 0 THEN entries
    ELSE SubSeq(entries, Len(entries) - n + 1, Len(entries))

\* ShortTermMemory.get_recent(n, memory_type)
GetRecentOf(mem, n, memory_type) ==
    LET entries == FilterType(mem, memory_type) IN
    IF Len(entries) > n THEN LastSlice(entries, n) ELSE entries

\* None of the parts of the planning / execution / control loop is in use.
CoreIdle == GraphIdle /\ ExecIdle /\ LoopIdle /\ CriticIdle /\ PlanIdle

\* ShortTermMemory(max_size): an empty deque of that maxlen.
ShortTermInit ==
    /\ stm_max_size \in 0..MaxSize
    /\ memories = <<>>
    /\ stm_pushed = <<>>
    /\ stm_count = 0
    /\ recent = <<>>
    /\ CoreIdle
    /\ RetryIdle
    /\ IngestIdle
    /\ MemoryIdle
    /\ PlannerIdle

\* push(content, memory_type): the entry is appended to the deque. The content
\* is the number of the push.
Push ==
    /\ stm_count < MaxPushes
    /\ \E mt \in MemoryTypes :
          LET entry == [content |-> stm_count + 1, memory_type |-> mt] IN
          /\ memories' = DequeAppend(memories, entry, stm_max_size)
          /\ stm_pushed' = Append(stm_pushed, entry)
    /\ stm_count' = stm_count + 1
    /\ UNCHANGED <<stm_max_size, recent, but_svars>>

\* clear()
Clear ==
    /\ memories' = <<>>
    /\ stm_pushed' = <<>>
    /\ UNCHANGED <<stm_max_size, stm_count, recent, but_svars>>

\* get_recent(n, memory_type), memory_type None or a type
GetRecent ==
    /\ \E n \in 0..MaxRecent, mt \in MemoryTypes \cup {"None"} :
          recent' = <<n, mt, GetRecentOf(memories, n, mt)>>
    /\ UNCHANGED <<stm_max_size, memories, stm_pushed, stm_count, but_svars>>

ShortTermNext == Push \/ Clear \/ GetRecent

SpecShortTerm == ShortTermInit /\ [][ShortTermNext]_vars

\* ----------------------------------------------------- retry_with_backoff

\* What a call of the wrapped function does: it raises, or returns a value.
FuncValues == {"answer_a", "answer_b"}

\* A sleep that grows by the same amount after every failure.
Backoff_Linear(backoff, n) == backoff * n

\* backoff_in_seconds * (2 ** (attempts - 1))
Backoff(backoff, n) == backoff * 2 ^ (n - 1)

\* The wrapper is called: attempts = 0.
RetryInit ==
    /\ rpc = "running"
    /\ retries \in 0..MaxRetries
    /\ backoff_in_seconds \in 1..MaxBackoff
    /\ attempts = 0
    /\ calls = <<>>
    /\ sleeps = <<>>
    /\ retval = ""
    /\ CoreIdle
    /\ ShortTermIdle
    /\ IngestIdle
    /\ MemoryIdle
    /\ PlannerIdle

\* Lines 9-11: inside the while loop func returns and the wrapper returns its value.
AttemptReturns ==
    /\ rpc = "running"
    /\ attempts < retries
    /\ \E v \in FuncValues :
          /\ calls' = Append(calls, v)
          /\ retval' = v
    /\ rpc' = "returned"
    /\ UNCHANGED <<retries, backoff_in_seconds, attempts, sleeps, but_rvars>>

\* Lines 12-15: inside the while loop func raises; the counter goes up and the
\* wrapper sleeps.
AttemptRaises ==
    /\ rpc = "running"
    /\ attempts < retries
    /\ calls' = Append(calls, "raise")
    /\ attempts' = attempts + 1
    /\ sleeps' = Append(sleeps, Backoff(backoff_in_seconds, attempts'))
    /\ UNCHANGED <<rpc, retries, backoff_in_seconds, retval, but_rvars>>

\* Line 16: the call after the loop returns.
LastAttemptReturns ==
    /\ rpc = "running"
    /\ attempts >= retries
    /\ \E v \in FuncValues :
          /\ calls' = Append(calls, v)
          /\ retval' = v
    /\ rpc' = "returned"
    /\ UNCHANGED <<retries, backoff_in_seconds, attempts, sleeps, but_rvars>>

\* Line 16: the call after the loop raises, and so does the wrapper.
LastAttemptRaises ==
    /\ rpc = "running"
    /\ attempts >= retries
    /\ calls' = Append(calls, "raise")
    /\ rpc' = "raised"
    /\ UNCHANGED <<retries, backoff_in_seconds, attempts, sleeps, retval, but_rvars>>

RetryNext ==
    \/ AttemptReturns
    \/ AttemptRaises
    \/ LastAttemptReturns
    \/ LastAttemptRaises

SpecRetry == RetryInit /\ [][RetryNext]_vars

\* -------------------------------------------- VectorIngestionPipeline.index

\* A document is given by its text; its id is hash_text(text), its embedding is
\* what the embedding model returns for the text.
Texts == 1..MaxTexts
HashText(t) == <<"hash", t>>
EmbeddingOf(t) == <<"embedding", t>>
MetadataOf(t) == <<"metadata", t>>

\* The cache after earlier runs: some documents' ids with their embeddings.
CacheOf(cached) == [k \in {HashText(t) : t \in cached} |-> EmbeddingOf(k[2])]

\* self.cache.get(doc.id): the cached embedding, or None
IsCached(c, t) == HashText(t) \in DOMAIN c

RECURSIVE CachedEmbeddings(_, _, _)
\* Lines 60-66: the embeddings appended inside the loop over the batch, those of
\* the cache hits, in batch order.
CachedEmbeddings(c, b, i) ==
    IF i > Len(b) THEN <<>>
    ELSE (IF IsCached(c, b[i]) THEN <<c[HashText(b[i])]>> ELSE <<>>)
         \o CachedEmbeddings(c, b, i + 1)

RECURSIVE MissedTexts(_, _, _)
\* Lines 60-66: the texts list, those of the cache misses, in batch order.
MissedTexts(c, b, i) ==
    IF i > Len(b) THEN <<>>
    ELSE (IF IsCached(c, b[i]) THEN <<>> ELSE <<b[i]>>) \o MissedTexts(c, b, i + 1)

\* embed_batch(texts): one embedding per text, in order
EmbedBatch(texts) == [i \in 1..Len(texts) |-> EmbeddingOf(texts[i])]

\* Lines 71-76: the new embeddings are appended after those of the cache hits.
BatchEmbeddings(c, b) == CachedEmbeddings(c, b, 1) \o EmbedBatch(MissedTexts(c, b, 1))

\* Lines 74-75: every new embedding is put into the cache.
CacheAfter(c, b) ==
    LET new == {HashText(b[i]) : i \in {j \in 1..Len(b) : ~IsCached(c, b[j])}}
    IN  [k \in DOMAIN c \cup new |-> IF k \in DOMAIN c THEN c[k] ELSE EmbeddingOf(k[2])]

\* index is at a batch, with some of the texts already in the cache.
IngestInit ==
    /\ ipc = "called"
    /\ \E n \in 0..MaxBatch : batch \in [1..n -> Texts]
    /\ \E cached \in SUBSET Texts : cache = CacheOf(cached)
    /\ stored = <<>>
    /\ CoreIdle
    /\ ShortTermIdle
    /\ RetryIdle
    /\ MemoryIdle
    /\ PlannerIdle

\* Lines 53-83 for one batch: the lists are built and handed to the store.
IndexBatch ==
    /\ ipc = "called"
    /\ stored' = [ids |-> [i \in 1..Len(batch) |-> HashText(batch[i])],
                  embeddings |-> BatchEmbeddings(cache, batch),
                  documents |-> batch,
                  metadatas |-> [i \in 1..Len(batch) |-> MetadataOf(batch[i])]]
    /\ cache' = CacheAfter(cache, batch)
    /\ ipc' = "stored"
    /\ UNCHANGED <<batch, but_ivars>>

\* embed_batch gives up with a RuntimeError: nothing is cached or stored.
EmbedBatchRaises ==
    /\ ipc = "called"
    /\ MissedTexts(cache, batch, 1) # <<>>
    /\ ipc' = "raised"
    /\ UNCHANGED <<batch, cache, stored, but_ivars>>

IngestNext == IndexBatch \/ EmbedBatchRaises

SpecIngest == IngestInit /\ [][IngestNext]_vars

\* ------------------------------------- LongTermMemory.retrieve_relevant_memory

\* run asks for top_k = 3; the second search asks for 2; the context lists 5.
TopK == 3
SuccessfulTopK == 2
ContextLimit == 5

\* The first n elements of a list: s[:n]
Prefix(s, n) == SubSeq(s, 1, IF n < Len(s) THEN n ELSE Len(s))

\* db.query(embedding, n_results): the n nearest stored experiences, nearest
\* first. An experience is identified by its rank in the store.
Query(n) == Prefix([i \in 1..Len(ranked) |-> i], n)

RECURSIVE Successful(_, _)
\* Lines 172-177 with filter_metadata = {"success": "True"}
Successful(ids, i) ==
    IF i > Len(ids) THEN <<>>
    ELSE (IF ranked[ids[i]] THEN <<ids[i]>> ELSE <<>>) \o Successful(ids, i + 1)

\* search_experiences(query, top_k, filter_metadata): the filter is applied to
\* the top_k results of the query.
SearchExperiences(top_k, filtered) ==
    IF filtered THEN Successful(Query(top_k), 1) ELSE Query(top_k)

\* _format_memories_for_context: one line per experience of the first five
FormatMemoriesForContext(exps) == Prefix(exps, ContextLimit)

\* retrieve_relevant_memory(goal, top_k)["context"]
RelevantMemoryContext(top_k) ==
    FormatMemoriesForContext(SearchExperiences(top_k, FALSE)
                             \o SearchExperiences(SuccessfulTopK, TRUE))

\* run is at line 101, with some experiences in the store.
MemoryInit ==
    /\ mpc = "called"
    /\ \E n \in 0..MaxStored : ranked \in [1..n -> BOOLEAN]
    /\ past_experiences = <<>>
    /\ CoreIdle
    /\ ShortTermIdle
    /\ RetryIdle
    /\ IngestIdle
    /\ PlannerIdle

\* Lines 101-103: the context goes into initial_context["past_experiences"].
RetrieveReturns ==
    /\ mpc = "called"
    /\ past_experiences' = RelevantMemoryContext(TopK)
    /\ mpc' = "returned"
    /\ UNCHANGED <<ranked, but_mvars>>

\* The embedder or the store raises: the call is outside run's try.
RetrieveRaises ==
    /\ mpc = "called"
    /\ mpc' = "raised"
    /\ UNCHANGED <<ranked, past_experiences, but_mvars>>

MemoryNext == RetrieveReturns \/ RetrieveRaises

SpecMemory == MemoryInit /\ [][MemoryNext]_vars

\* ------------------------------------------------- GoalDecomposer.decompose

\* A task of the response has a description and a list of dependency references.
\* A reference is a positional index (0-based, as Python counts) or a literal
\* description; an index or a description may belong to no task of the list.
Descriptions == 1..MaxDescriptions
IndexRef(k) == <<"index", k>>
DescriptionRef(d) == <<"description", d>>
RefsFor(n) == {IndexRef(k) : k \in 0..n} \cup {DescriptionRef(d) : d \in 1..(MaxDescriptions + 1)}

RECURSIVE RefsOfTask(_, _, _)
\* The references of the task at position j among the (task, reference) pairs
RefsOfTask(es, j, i) ==
    IF i > Len(es) THEN <<>>
    ELSE (IF es[i][1] = j THEN <<es[i][2]>> ELSE <<>>) \o RefsOfTask(es, j, i + 1)

\* The list of tasks with the descriptions ds and the references es.
TasksDataOf(ds, es) ==
    [j \in 1..Len(ds) |-> [description |-> ds[j], dependencies |-> RefsOfTask(es, j, 1)]]

\* task_id = f"task_{i+1}_{uuid}": the id of the task at Python index i
TaskIdOf(i) == i + 1

\* Lines 91-94: the first index in task_id_map, that is at most i, whose task has
\* the description; -1 when there is none.
FirstMapped(td, d, i) ==
    LET found == {idx \in 0..i : td[idx + 1].description = d}
    IN  IF found = {} THEN -1 ELSE CHOOSE idx \in found : \A o \in found : idx <= o

\* Lines 87-94 for one reference of the task at index i: the ids appended.
ResolveRef(td, ref, i) ==
    IF ref[1] = "index"
    THEN IF ref[2] \in 0..i THEN <<TaskIdOf(ref[2])>> ELSE <<>>
    ELSE LET idx == FirstMapped(td, ref[2], i)
         IN  IF idx >= 0 THEN <<TaskIdOf(idx)>> ELSE <<>>

RECURSIVE ResolveRefs(_, _, _, _)
\* Lines 83-94: the dependencies list of the task at index i
ResolveRefs(td, refs, i, r) ==
    IF r > Len(refs) THEN <<>>
    ELSE ResolveRef(td, refs[r], i) \o ResolveRefs(td, refs, i, r + 1)

\* decompose: the dependency lists of the task nodes; the node at position j of
\* the list has Python index j - 1 and id j.
Decompose(td) == [j \in 1..Len(td) |-> ResolveRefs(td, td[j].dependencies, j - 1, 1)]

\* ------------------------------------------- PlanningEngine.validate_plan

Issue(kind, t, d) == [kind |-> kind, task |-> t, dep |-> d]

RECURSIVE OrphanIssuesOf(_, _, _)
\* Lines 121-123 for one task
OrphanIssuesOf(ts, t, i) ==
    IF i > Len(ts[t]) THEN <<>>
    ELSE (IF ts[t][i] \notin TaskIds(ts) THEN <<Issue("orphan", t, ts[t][i])>> ELSE <<>>)
         \o OrphanIssuesOf(ts, t, i + 1)

RECURSIVE OrphanIssues(_, _)
\* Lines 119-123
OrphanIssues(ts, t) ==
    IF t > Len(ts) THEN <<>>
    ELSE OrphanIssuesOf(ts, t, 1) \o OrphanIssues(ts, t + 1)

\* Lines 103-109
BasicIssues(goal, ts) ==
    (IF goal = "" THEN <<Issue("no_goal", 0, 0)>> ELSE <<>>)
    \o (IF ts = <<>> THEN <<Issue("no_tasks", 0, 0)>> ELSE <<>>)

\* validate_plan(plan): (is_valid, issues)
ValidatePlan(goal, ts) ==
    IF ValidateDagRaises(ts)
    THEN [ok |-> FALSE, issues |-> Append(BasicIssues(goal, ts), Issue("graph", 0, 0))]
    ELSE LET issues == BasicIssues(goal, ts) \o OrphanIssues(ts, 1)
         IN  [ok |-> issues = <<>>, issues |-> issues]

\* --------------------------------------------------- PlannerAgent.execute

\* execute is about to call create_plan: the model's response has some tasks.
CreateInit ==
    /\ dpc = "create"
    /\ \E n \in 0..MaxTasksData, k \in 0..MaxRefs :
          \E ds \in [1..n -> Descriptions], es \in [1..k -> (1..n) \X RefsFor(n)] :
             /\ \A i \in 1..(k - 1) : es[i][1] <= es[i + 1][1]
             /\ tasks_data = TasksDataOf(ds, es)
    /\ plan_goal = "goal"
    /\ plan_tasks = <<>>
    /\ validation = None
    /\ CoreIdle
    /\ ShortTermIdle
    /\ RetryIdle
    /\ IngestIdle
    /\ MemoryIdle

\* validate_plan is about to be called on some plan.
ValidateInit ==
    /\ dpc = "validate"
    /\ tasks_data = <<>>
    /\ plan_goal \in {"", "goal"}
    /\ \E n \in 0..PlanMaxTasks, k \in 0..PlanMaxEdges :
          \E es \in [1..k -> Entries(n)] :
             /\ \A i \in 1..(k - 1) : es[i][1] <= es[i + 1][1]
             /\ plan_tasks = TaskListOf(n, es)
    /\ validation = None
    /\ CoreIdle
    /\ ShortTermIdle
    /\ RetryIdle
    /\ IngestIdle
    /\ MemoryIdle

\* PlanningEngine.create_plan returns the plan made of the decomposed tasks.
CreatePlanReturns ==
    /\ dpc = "create"
    /\ plan_tasks' = Decompose(tasks_data)
    /\ dpc' = "validate"
    /\ UNCHANGED <<tasks_data, plan_goal, validation, but_dvars>>

\* The model call raises: execute marks the task failed.
CreatePlanRaises ==
    /\ dpc = "create"
    /\ dpc' = "failed"
    /\ UNCHANGED <<tasks_data, plan_goal, plan_tasks, validation, but_dvars>>

\* validate_plan accepts the plan: execute completes with it.
ValidateOk ==
    /\ dpc = "validate"
    /\ ValidatePlan(plan_goal, plan_tasks).ok
    /\ validation' = ValidatePlan(plan_goal, plan_tasks)
    /\ dpc' = "completed"
    /\ UNCHANGED <<tasks_data, plan_goal, plan_tasks, but_dvars>>

\* validate_plan reports issues: execute raises and marks the task failed.
ValidateFails ==
    /\ dpc = "validate"
    /\ ~ValidatePlan(plan_goal, plan_tasks).ok
    /\ validation' = ValidatePlan(plan_goal, plan_tasks)
    /\ dpc' = "failed"
    /\ UNCHANGED <<tasks_data, plan_goal, plan_tasks, but_dvars>>

CreateNext == CreatePlanReturns \/ CreatePlanRaises \/ ValidateOk \/ ValidateFails

ValidateNext == ValidateOk \/ ValidateFails

SpecCreate == CreateInit /\ [][CreateNext]_vars

SpecValidate == ValidateInit /\ [][ValidateNext]_vars

\* ------------------------------------------------ properties of TaskGraph

Range(seq) == {seq[i] : i \in 1..Len(seq)}

\* The dependencies of task t that are tasks of the list.
DefinedDeps(ts, t) == Range(ts[t]) \cap TaskIds(ts)

HasUndefinedDep(ts) == \E t \in TaskIds(ts) : Range(ts[t]) \ TaskIds(ts) # {}

HasRepeatedDep(ts) == \E t \in TaskIds(ts) : Len(ts[t]) > Cardinality(Range(ts[t]))

RECURSIVE DepsWithin(_, _, _)
\* The tasks reached from the set S by following at most k dependency edges.
DepsWithin(ts, S, k) ==
    IF k = 0 THEN S
    ELSE DepsWithin(ts, S \cup UNION {DefinedDeps(ts, t) : t \in S}, k - 1)

\* The dependency relation has a cycle: some task depends, directly or through
\* other tasks, on itself.
HasDependencyCycle(ts) ==
    \E t \in TaskIds(ts) : t \in DepsWithin(ts, DefinedDeps(ts, t), Len(ts))

LevelOf(lv, t) == CHOOSE L \in 1..Len(lv) : t \in Range(lv[L])

PosIn(seq, t) == CHOOSE i \in 1..Len(seq) : seq[i] = t

RECURSIVE Flatten(_)
Flatten(lv) == IF lv = <<>> THEN <<>> ELSE Head(lv) \o Flatten(Tail(lv))

C3_RejectedIffCycle ==
    (gstate # "new" /\ ~HasUndefinedDep(tasks))
        => (gstate = "rejected" <=> HasDependencyCycle(tasks))

\* A rejected list whose cycle runs through three tasks, none depending on itself.
C3_Witness ==
    /\ gstate = "rejected"
    /\ ~HasUndefinedDep(tasks)
    /\ \A t \in TaskIds(tasks) : t \notin DefinedDeps(tasks, t)
    /\ \A t, u \in TaskIds(tasks) :
          ~(t \in DefinedDeps(tasks, u) /\ u \in DefinedDeps(tasks, t))

\* C4: the levels of a constructed graph are non-empty and hold every task of the
\* list exactly once.
C4_LevelsPartitionTasks ==
    gstate = "ordered" =>
        /\ \A L \in 1..Len(levels) : levels[L] # <<>>
        /\ Len(Flatten(levels)) = Len(tasks)
        /\ Range(Flatten(levels)) = TaskIds(tasks)

C4_Witness ==
    /\ gstate = "ordered"
    /\ \E t \in TaskIds(tasks) :
          Len(tasks[t]) > Cardinality(Range(tasks[t])) /\ DefinedDeps(tasks, t) # {}
    /\ HasUndefinedDep(tasks)
    /\ Len(levels) >= 2

\* C5: a task is in a strictly later level than each of its dependencies.
C5_DependencyInEarlierLevel ==
    gstate = "ordered" =>
        \A b \in Range(Flatten(levels)) : \A a \in DefinedDeps(tasks, b) :
            /\ a \in Range(Flatten(levels))
            /\ LevelOf(levels, a) < LevelOf(levels, b)

C5_Witness ==
    /\ gstate = "ordered"
    /\ Len(levels) >= 3
    /\ \E t \in TaskIds(tasks) : Cardinality(DefinedDeps(tasks, t)) >= 2

\* C6 (as stated): in every level the nodes are in declaration order.
C6_EveryLevelInDeclarationOrder ==
    gstate = "ordered" =>
        \A L \in 1..Len(levels) : \A i, j \in 1..Len(levels[L]) :
            i < j => levels[L][i] < levels[L][j]

\* The dependency of x that was processed last in the level before x's.
Trigger(lv, ts, x, L) ==
    LET D == DefinedDeps(ts, x) \cap Range(lv[L - 1])
    IN  CHOOSE d \in D : \A e \in D : PosIn(lv[L - 1], e) <= PosIn(lv[L - 1], d)

\* C6 (amended): the first level is in declaration order; in a later level the
\* nodes are ordered by the position, in the level before, of the dependency
\* that was processed last, and by declaration order among nodes sharing it.
C6_LevelOrder ==
    gstate = "ordered" =>
        /\ Len(levels) >= 1 =>
              \A i, j \in 1..Len(levels[1]) : i < j => levels[1][i] < levels[1][j]
        /\ \A L \in 2..Len(levels) : \A i, j \in 1..Len(levels[L]) :
              LET x == levels[L][i]
                  y == levels[L][j]
              IN  /\ DefinedDeps(tasks, x) \cap Range(levels[L - 1]) # {}
                  /\ i < j =>
                        LET tx == Trigger(levels, tasks, x, L)
                            ty == Trigger(levels, tasks, y, L)
                        IN  \/ PosIn(levels[L - 1], tx) < PosIn(levels[L - 1], ty)
                            \/ tx = ty /\ x < y

\* A later level whose nodes are not in declaration order.
C6_Witness ==
    /\ gstate = "ordered"
    /\ \E L \in 2..Len(levels) : \E i, j \in 1..Len(levels[L]) :
          i < j /\ levels[L][i] > levels[L][j]

\* --------------------------------------------------- properties of run_plan

\* C1: when node c depends on node b and b is Failed, c's worker is never invoked
\* and c stays Pending while the levels are processed; when run_plan returns, c is
\* Failed with a blocked-dependency error (and is_complete() is true).
C1_BlockedDependentNeverRuns ==
    xpc \in {"running", "done"} =>
        \A c \in TaskIds(tasks) : \A b \in DefinedDeps(tasks, c) :
            status[b] = "failed" =>
                /\ c \notin invoked
                /\ xpc = "running" => status[c] = "pending"
                /\ xpc = "done" => (status[c] = "failed" /\ error[c] = "blocked"
                                       /\ IsComplete)

\* ----------------------------------------- properties of AutonomousLoop.run

\* C7: before each iteration's Planning step the wall clock is checked, and when
\* the elapsed time exceeds timeout_seconds (0 included) the loop stops there,
\* without planning that iteration, with reason "timeout".
C7_TimeoutStopsBeforePlanning ==
    [][(/\ pc = "loop_head"
        /\ iteration <= max_iterations
        /\ timeout_seconds # None
        /\ elapsed > timeout_seconds)
            => (pc' = "finalize" /\ termination_reason' = "timeout")]_vars

\* C8: no exception of a collaborator ever propagates out of run().
C8_NoExceptionEscapes == pc # "raised"

\* C9: in every iteration, when Planning yields no plan the run ends with status
\* Failed and termination reason "planning_failed".
C9_PlanningFailureReason ==
    [][(pc = "plan" /\ pc' # "execute")
            => (run_status' = "failed" /\ termination_reason' = "planning_failed")]_vars

\* The reason the priority order gives after an iteration: threshold_met, then
\* max_cost, then max_tokens, then max_iterations; "" when no stop condition holds.
ReasonByPriority ==
    IF critique.overall_score >= ScoreThreshold /\ ~critique.should_iterate
    THEN "threshold_met"
    ELSE IF max_cost # None /\ total_cost >= max_cost THEN "max_cost"
    ELSE IF max_tokens # None /\ total_tokens >= max_tokens THEN "max_tokens"
    ELSE IF iteration >= max_iterations THEN "max_iterations"
    ELSE ""

\* C10: the termination reason set after an iteration is the first one, in the
\* priority order, whose stop condition holds; max_iterations is reported only
\* when no earlier condition holds. Stated for the loops built without a cost or
\* token limit, where threshold_met and max_iterations are the reasons left.
C10_FirstTrueWins ==
    [][(pc = "decide" /\ max_cost = None /\ max_tokens = None)
            => termination_reason' = ReasonByPriority]_vars

\* The stop condition of the continue decision after iteration n.
StopAfterIteration ==
    \/ iteration >= max_iterations
    \/ critique.overall_score >= ScoreThreshold /\ ~critique.should_iterate

\* The scores of the three-iteration example: (0.5, iterate), (0.6, iterate),
\* (0.9, do not iterate).
ExampleScores ==
    << [overall_score |-> 50, should_iterate |-> TRUE],
       [overall_score |-> 60, should_iterate |-> TRUE],
       [overall_score |-> 90, should_iterate |-> FALSE] >>

\* C11: after the Reflecting step the loop stops if iteration >= max_iterations,
\* else stops if overall_score >= threshold and not should_iterate, else goes on
\* to the next iteration; iteration n+1 starts only from the continue decision of
\* a completed iteration n, the iterations never outnumber max_iterations, and
\* the example scores with max_iterations = 3 stop after iteration 3 with reason
\* threshold_met and three iterations.
C11_ContinueDecision ==
    [][/\ pc = "decide" =>
            IF StopAfterIteration
            THEN pc' = "finalize" /\ iteration' = iteration
            ELSE pc' = "loop_head" /\ iteration' = iteration + 1
       /\ iteration' # iteration =>
            (pc = "decide" /\ Len(iterations) = iteration /\ ~StopAfterIteration)
       /\ Len(iterations') <= max_iterations
       /\ (pc = "decide" /\ max_iterations = 3 /\ iterations = ExampleScores) =>
            (pc' = "finalize" /\ termination_reason' = "threshold_met"
                /\ Len(iterations') = 3)]_vars

C11_Witness ==
    /\ pc = "returned"
    /\ max_iterations = 3
    /\ iterations = ExampleScores
    /\ termination_reason = "threshold_met"

\* C12: when the continue decision is "continue", the loop still stops with reason
\* max_cost if the cumulative cost is >= max_cost, or with reason max_tokens if the
\* cumulative tokens are >= max_tokens, for every configured limit, 0 included.
C12_LimitsStopTheLoop ==
    [][(pc = "decide" /\ ~StopAfterIteration) =>
            IF max_cost # None /\ total_cost >= max_cost
            THEN pc' = "finalize" /\ termination_reason' = "max_cost"
            ELSE IF max_tokens # None /\ total_tokens >= max_tokens
            THEN pc' = "finalize" /\ termination_reason' = "max_tokens"
            ELSE pc' = "loop_head"]_vars

\* ------------------------------------------ more properties of run_plan

Terminal == {"completed", "failed"}

\* The nodes that have an entry in the execution log.
Logged(log) == {log[i].task_id : i \in 1..Len(log)}

\* C13: a run over a valid plan terminates, after at most as many levels and
\* node steps as the plan has nodes, and when it returns every node is Completed
\* or Failed, whatever the workers returned or raised.
C13_RunReachesComplete ==
    /\ (xpc = "idle" /\ ~ValidateDagRaises(tasks)) ~> (xpc = "done")
    /\ [](xpc = "done" => IsComplete)
    /\ [](Len(levels) <= Len(tasks) /\ Len(execution_log) <= Len(tasks))

C13_Witness ==
    /\ xpc = "done"
    /\ Len(tasks) = ExecMaxTasks
    /\ Len(levels) > 1
    /\ \E t \in TaskIds(tasks) : error[t] = "exception"
    /\ \E t \in TaskIds(tasks) : error[t] = "worker_error"
    /\ IsComplete

\* C14: a node's failure (no worker for its role, a worker that raises or that
\* returns Failed) changes the status, result and error of that node only, does
\* not end the run, and the next node of the same level is attempted next; when
\* the run returns every node has been attempted.
C14_FailureIsLocal ==
    [][(xpc = "running" /\ epos[1] <= Len(levels)) =>
          /\ \A t \in TaskIds(tasks) \ {CurrentNode} :
                status'[t] = status[t] /\ result'[t] = result[t] /\ error'[t] = error[t]
          /\ xpc' = "running"
          /\ execution_log' = Append(execution_log, LogEntry(CurrentNode, status'[CurrentNode]))
          /\ epos[2] < Len(levels[epos[1]]) => epos' = <<epos[1], epos[2] + 1>>
          /\ (epos' [1] > Len(levels)) => Logged(execution_log') = TaskIds(tasks)]_vars

C14_Witness ==
    /\ xpc = "done"
    /\ \E i, j \in 1..Len(execution_log) :
          /\ i < j
          /\ execution_log[i].level = execution_log[j].level
          /\ error[execution_log[i].task_id] = "no_agent"
          /\ status[execution_log[j].task_id] = "completed"

\* C15: no node of level L+1 is started until every node of level L has reached
\* a terminal status: whenever a node is about to be processed, all nodes of the
\* earlier levels and the earlier nodes of its own level are Completed or Failed.
C15_LevelBarrier ==
    (xpc = "running" /\ epos[1] <= Len(levels)) =>
        /\ \A L \in 1..(epos[1] - 1) : \A i \in 1..Len(levels[L]) :
              status[levels[L][i]] \in Terminal
        /\ \A L \in epos[1]..Len(levels) : \A i \in 1..Len(levels[L]) :
              (L > epos[1] \/ i >= epos[2]) => status[levels[L][i]] = "pending"

C15_Witness ==
    /\ xpc = "running"
    /\ Len(levels) >= 2
    /\ Len(levels[1]) >= 2
    /\ epos = <<2, 1>>
    /\ \E i \in 1..Len(levels[1]) : status[levels[1][i]] = "failed"

\* The last Completed node in declaration order.
LastCompleted == CHOOSE t \in TaskIds(tasks) :
    /\ status[t] = "completed"
    /\ \A u \in TaskIds(tasks) : status[u] = "completed" => u <= t

\* C16: when some node completed, the result handed to the Critic is the result
\* of the last Completed node in declaration order, not of the last node that
\* completed in level order.
C16_LastCompletedInDeclarationOrder ==
    (xpc = "done" /\ \E t \in TaskIds(tasks) : status[t] = "completed") =>
        FinalResult = result[LastCompleted]

C16_Witness ==
    /\ xpc = "done"
    /\ \E t \in TaskIds(tasks) : status[t] = "completed"
    /\ LET last == execution_log[Len(execution_log)].task_id IN
          /\ status[last] = "completed"
          /\ result[last] = ResultOf(last)
          /\ last # LastCompleted
          /\ FinalResult = ResultOf(LastCompleted)

\* ------------------------------------ properties of SelfReflection.reflect

\* C19: reflect returns success = true exactly when the critique's overall score
\* is >= 0.7 and should_iterate is false, and the experience it stores carries the
\* same flag.
C19_ReflectSuccessFlag ==
    [][(pc = "reflect" /\ pc' = "log_iteration") =>
          /\ reflection'.success = (critique.overall_score >= 70 /\ ~critique.should_iterate)
          /\ Len(experiences') = Len(experiences) + 1
          /\ experiences'[Len(experiences')].success = PyStr(reflection'.success)
          /\ experiences'[Len(experiences')].critique_score = critique.overall_score]_vars

C19_Witness ==
    /\ pc = "log_iteration"
    /\ critique.overall_score = 70
    /\ ~critique.should_iterate
    /\ reflection.success
    /\ experiences[Len(experiences)].success = "True"

\* ------------------------------------ properties of CriticAgent.evaluate

\* The neutral default critique: every score 0.5, should_iterate true, the single
\* could-not-parse weakness, confidence 0.3.
NeutralDefault ==
    [completeness_score |-> 50, evidence_strength_score |-> 50, coherence_score |-> 50,
     actionability_score |-> 50, overall_score |-> 50, weaknesses |-> "unable_to_parse",
     should_iterate |-> TRUE, confidence |-> 30]

\* A response that is not a JSON object with the expected fields.
NonConforming(resp) ==
    \/ resp.kind # "object"
    \/ \E k \in DimKeys : resp[k] \notin DimScores
    \/ resp.should_iterate = Absent
    \/ resp.weaknesses = "absent"
    \/ resp.confidence = Absent

\* C17: for every non-conforming response evaluate never raises and returns the
\* neutral default critique.
C17_NeutralFallback ==
    NonConforming(response) =>
        /\ cpc # "raised"
        /\ cpc = "returned" => critic_out = NeutralDefault

\* The response supplies no overall score.
NoOverallSupplied(resp) == resp.kind = "text" \/ resp.overall_score \in {Absent, None}

\* C18: when the response supplies no overall score, the Critique's overall score
\* is 0.3, 0.3, 0.2 and 0.2 of the four dimension scores of the same Critique; a
\* supplied overall score is kept as given.
C18_OverallIsWeightedSum ==
    cpc = "returned" =>
        IF NoOverallSupplied(response)
        THEN 100 * critic_out.overall_score =
                30 * critic_out.completeness_score + 30 * critic_out.evidence_strength_score
              + 20 * critic_out.coherence_score + 20 * critic_out.actionability_score
        ELSE critic_out.overall_score = response.overall_score

C18_Witness ==
    /\ cpc = "returned"
    /\ response.kind = "object"
    /\ response.overall_score = Absent
    /\ critic_out.completeness_score = 80
    /\ critic_out.evidence_strength_score = 60
    /\ critic_out.coherence_score = 90
    /\ critic_out.actionability_score = 70
    /\ critic_out.overall_score = 74

\* ------------------------------- properties of PlanningEngine.refine_plan

\* C20: refine_plan returns a new Plan whose version is the original's plus one
\* and whose id is the original's id followed by "_v<new version>", and it leaves
\* the original Plan as it was.
C20_RefinedVersionAndId ==
    [][(ppc = "called" /\ ppc' = "returned") =>
          /\ refined_plan'.version = original_plan.version + 1
          /\ refined_plan'.plan_id.base = original_plan.plan_id.base
          /\ refined_plan'.plan_id.suffixes =
                original_plan.plan_id.suffixes \o <<refined_plan'.version>>
          /\ original_plan' = original_plan]_vars

C20_Witness ==
    /\ ppc = "returned"
    /\ original_plan.version = 2
    /\ original_plan.plan_id.suffixes = <<2>>
    /\ refined_plan.version = 3
    /\ refined_plan.plan_id.suffixes = <<2, 3>>
    /\ refined_plan.tasks # original_plan.tasks

\* ------------------------------------- properties of the stored experiences

\* The number of experiences the end of a run has stored.
FinalStores == Cardinality({i \in 1..Len(experiences) : experiences[i].source = "run"})

\* C25 as stated: the experiences in long-term memory are as many as the
\* completed Reflecting steps.
C25_OneExperiencePerReflection == Len(experiences) = Len(iterations)

\* C25: every completed Reflecting step stores one experience, the end of a run
\* that reaches its final store adds one more (also when no iteration ran), and
\* a stored experience is never changed afterwards.
C25_ExperiencesStored ==
    [][/\ Len(experiences') = Len(iterations') + (IF pc' = "returned" /\ pc = "store_final"
                                                     /\ termination_reason' # "error"
                                                  THEN 1 ELSE 0)
       /\ Len(experiences') >= Len(experiences)
       /\ \A i \in 1..Len(experiences) : experiences'[i] = experiences[i]]_vars

C25_Witness ==
    /\ pc = "returned"
    /\ Len(iterations) = 2
    /\ Len(experiences) = 3
    /\ experiences[1].source = "reflect"
    /\ experiences[3].source = "run"

\* ------------------------------------------ the status of a returned run

\* C29: the run's status is Completed only if some node of the last executed
\* iteration Completed with a non-empty result; when every node Failed the status
\* is Failed. Stated for the plans that have nodes, the only ones the planner
\* lets through.
C29_CompletedNeedsACompletedNode ==
    (xpc = "done" /\ Len(tasks) > 0) =>
        (StatusFor(FinalResult) = "completed" =>
            \E t \in TaskIds(tasks) : status[t] = "completed" /\ result[t] # None)

\* ------------------------------------------ properties of ShortTermMemory

Min(a, b) == IF a < b THEN a ELSE b

\* The last k entries of a sequence.
LastK(seq, k) == SubSeq(seq, Len(seq) - k + 1, Len(seq))

\* C24: after any pushes and clears the buffer holds the last min(k, N) entries
\* pushed since the last clear, in insertion order, never more than N of them;
\* clear leaves it empty.
C24_BufferHoldsLastEntries ==
    [][/\ memories' = LastK(stm_pushed', Min(Len(stm_pushed'), stm_max_size))
       /\ Len(memories') <= stm_max_size
       /\ stm_pushed' = <<>> => memories' = <<>>]_vars

C24_Witness ==
    /\ stm_max_size = 3
    /\ Len(stm_pushed) = 5
    /\ memories = SubSeq(stm_pushed, 3, 5)

RECURSIVE Reversed(_)
Reversed(seq) == IF seq = <<>> THEN <<>> ELSE Reversed(Tail(seq)) \o <<Head(seq)>>

\* The n most recently pushed entries of the buffer that match the type filter,
\* most recent first.
MostRecentFirst(mem, n, memory_type) ==
    LET matching == Reversed(FilterType(mem, memory_type))
    IN  SubSeq(matching, 1, Min(n, Len(matching)))

\* C28: get_recent(n, memory_type) returns at most n entries, the n most recently
\* pushed ones that match the type filter, most recent first.
C28_GetRecent ==
    [][recent' # recent =>
          /\ Len(recent'[3]) <= recent'[1]
          /\ recent'[3] = MostRecentFirst(memories, recent'[1], recent'[2])]_vars

\* --------------------------------------- properties of retry_with_backoff

\* The failed attempts among the calls.
Failures == {i \in 1..Len(calls) : calls[i] = "raise"}

\* C27: the wrapper returns the value of the first successful attempt and makes
\* no attempt after it; it raises only when all its attempts have failed; it makes
\* at most retries + 1 attempts; and before the attempt that follows the i-th
\* failure it sleeps backoff_in_seconds * 2^(i-1).
C27_RetryWithBackoff ==
    /\ Len(calls) <= retries + 1
    /\ \A i \in 1..(Len(calls) - 1) : calls[i] = "raise"
    /\ rpc = "returned" => (calls[Len(calls)] # "raise" /\ retval = calls[Len(calls)])
    /\ rpc = "raised" => (Len(calls) = retries + 1 /\ Failures = 1..Len(calls))
    /\ rpc = "running" => Failures = 1..Len(calls)
    /\ Len(sleeps) = Min(Cardinality(Failures), retries)
    /\ \A i \in 1..Len(sleeps) : sleeps[i] = backoff_in_seconds * 2 ^ (i - 1)

C27_Witness ==
    /\ rpc = "returned"
    /\ retries = 3
    /\ backoff_in_seconds = 2
    /\ calls = <<"raise", "raise", "raise", "answer_a">>
    /\ sleeps = <<2, 4, 8>>
    /\ retval = "answer_a"

\* -------------------------------- properties of VectorIngestionPipeline.index

\* C30: for every batch and every mix of cache hits and misses, the ids, the
\* documents, the metadatas and the embeddings handed to the store have the same
\* length, and the i-th embedding is the embedding of the i-th document's text.
C30_EmbeddingsAligned ==
    [][(ipc = "called" /\ ipc' = "stored") =>
          /\ Len(stored'.ids) = Len(stored'.documents)
          /\ Len(stored'.metadatas) = Len(stored'.documents)
          /\ Len(stored'.embeddings) = Len(stored'.documents)
          /\ \A i \in 1..Len(stored'.documents) :
                stored'.embeddings[i] = EmbeddingOf(stored'.documents[i])]_vars

\* ---------------------------------- properties of retrieve_relevant_memory

\* C26: the initial planning context holds at most k = 3 past experiences, and
\* each distinct stored experience appears in it at most once.
C26_AtMostKDistinctExperiences ==
    mpc = "returned" =>
        /\ Len(past_experiences) <= TopK
        /\ \A i, j \in 1..Len(past_experiences) :
              past_experiences[i] = past_experiences[j] => i = j

\* ------------------------------------------------ properties of planning

\* Some tasks of the plan depend on each other in a circle: a non-empty set of
\* tasks each of which has a dependency in the set.
Cyclic(ts) ==
    \E S \in SUBSET TaskIds(ts) :
       /\ S # {}
       /\ \A t \in S : \E i \in 1..Len(ts[t]) : ts[t][i] \in S

\* The dependency entries, as (task, dependency id) pairs, that name no task of
\* the plan.
Dangling(ts) ==
    UNION {{<<t, ts[t][i]>> : i \in {j \in 1..Len(ts[t]) : ts[t][j] \notin TaskIds(ts)}} :
           t \in TaskIds(ts)}

\* C21: a plan returned by PlanningEngine.create_plan has no dependency cycle and
\* no dangling dependency.
C21_CreatedPlanIsADag ==
    [][(dpc = "create" /\ dpc' = "validate") =>
          /\ ~Cyclic(plan_tasks')
          /\ Dangling(plan_tasks') = {}]_vars


\* The ids of the tasks a reference designates: the task at the index, or the
\* tasks carrying the description.
Designated(td, ref) ==
    IF ref[1] = "index"
    THEN {TaskIdOf(k) : k \in {ref[2]} \cap (0..(Len(td) - 1))}
    ELSE {t \in 1..Len(td) : td[t].description = ref[2]}

\* C22: every dependency reference that designates a task of the list, earlier or
\* later, by index or by description, is resolved to the id of a task it
\* designates; a task keeps no more dependencies than it has such references.
C22_ReferencesResolved ==
    [][(dpc = "create" /\ dpc' = "validate") =>
          \A j \in 1..Len(tasks_data) :
             LET refs == tasks_data[j].dependencies
                 deps == plan_tasks'[j]
             IN  /\ \A r \in 1..Len(refs) :
                       Designated(tasks_data, refs[r]) # {} =>
                          \E i \in 1..Len(deps) : deps[i] \in Designated(tasks_data, refs[r])
                 /\ Len(deps) = Cardinality({r \in 1..Len(refs) :
                                                Designated(tasks_data, refs[r]) # {}})]_vars

\* An issue of the kind is in the list.
Reports(issues, kind) == \E i \in 1..Len(issues) : issues[i].kind = kind

\* C23: validate_plan accepts exactly the plans with a goal, with tasks, without a
\* cycle and without a dangling dependency, and the issues of a rejected plan
\* name every defect the plan has.
C23_ValidateReportsEveryDefect ==
    [][dpc = "validate" =>
          LET v == validation'
          IN  /\ v.ok <=> /\ plan_goal # ""
                          /\ plan_tasks # <<>>
                          /\ ~Cyclic(plan_tasks)
                          /\ Dangling(plan_tasks) = {}
              /\ plan_goal = "" => Reports(v.issues, "no_goal")
              /\ plan_tasks = <<>> => Reports(v.issues, "no_tasks")
              /\ Cyclic(plan_tasks) => Reports(v.issues, "graph")
              /\ \A p \in Dangling(plan_tasks) :
                    \E i \in 1..Len(v.issues) :
                       v.issues[i] = Issue("orphan", p[1], p[2])]_vars

====
